---- MODULE Spec2Model ----
(***************************************************************************)
(* A model of the context-ai-api knowledge pipeline: the KnowledgeSource   *)
(* entity and its status methods, document ingestion                       *)
(* (IngestDocumentUseCase.execute), vector retrieval                       *)
(* (KnowledgeRepository.vectorSearch), the RAG query flow (executeQuery),  *)
(* batched embedding generation (EmbeddingService.generateEmbeddings) and  *)
(* the assistant's use case (QueryAssistantUseCase.execute) with the       *)
(* Conversation and Message entities.                                      *)
(*                                                                         *)
(* Each component has its own specification over the shared variables:     *)
(*   SpecEntity  - calls of the KnowledgeSource methods on one entity      *)
(*   SpecIngest  - ingestion runs against the source and fragment tables   *)
(*   SpecSearch  - direct calls of KnowledgeRepository.vectorSearch        *)
(*   SpecQuery   - one executeQuery run through the module's wiring        *)
(*   SpecEmbed   - one generateEmbeddings call and its provider calls      *)
(*   SpecAssistant - two callers of QueryAssistantUseCase.execute          *)
(***************************************************************************)
EXTENDS Integers, Sequences, FiniteSets, TLC

VARIABLES
    ks,            \* SpecEntity: the KnowledgeSource object under test
    lastCall,      \* SpecEntity: the last method called on ks and whether it threw
    clock,         \* SpecEntity: the value the next `new Date()` returns
    sourceTable,   \* knowledge_sources rows, by id (NoRow: no row)
    fragmentTable, \* the set of fragments rows
    run,           \* SpecIngest: each ingestion run's position and locals
    vs,            \* SpecSearch: the last vectorSearch call and its result
    q,             \* SpecQuery: the executeQuery run
    eb,            \* SpecEmbed: the generateEmbeddings call
    conversationTable, \* conversations rows with their messages, by id
    qa,            \* SpecAssistant: each QueryAssistantUseCase.execute run
    cv             \* SpecConversation: the Conversation object under test and the last call on it

vars == <<ks, lastCall, clock, sourceTable, fragmentTable, run, vs, q, eb,
          conversationTable, qa, cv>>

\* null / undefined of a string-valued field
NULL == "NULL"
\* an entity not yet persisted has no id
NoId == 0
\* an unset Date (deletedAt of a source that is not deleted) or an omitted
\* number-valued argument
NoDate == -1
NoArg == NoDate
\* no entity / no row
NoRow == [id |-> NoId]

(***************************************************************************)
(* Bounds of the model.                                                    *)
(***************************************************************************)
MaxClock == 4
MaxRuns == 2
MaxChunks == 2
MaxFrags == 3
MaxTexts == 4

(***************************************************************************)
(* KnowledgeSource entity (knowledge-source.entity.ts).                    *)
(***************************************************************************)
Statuses == {"PENDING", "PROCESSING", "COMPLETED", "FAILED", "DELETED"}
Sectors == {"sectorA", "sectorB"}
ErrorMessages == {"API rate limit exceeded", "Database error"}
MetaKeys == {"author", "pages"}
Metadatas == [MetaKeys -> {NULL, "v1"}]
NoMetadata == [k \in MetaKeys |-> NULL]

Ok(e) == [threw |-> FALSE, ent |-> e, err |-> NULL]
Throw(e, msg) == [threw |-> TRUE, ent |-> e, err |-> msg]

\* new KnowledgeSource({...}): status PENDING, no id, no error message.
NewKnowledgeSource(sector, md, t) ==
    [id |-> NoId, sectorId |-> sector, status |-> "PENDING",
     errorMessage |-> NULL, metadata |-> md,
     createdAt |-> t, updatedAt |-> t, deletedAt |-> NoDate]

isDeleted(e) == e.status = "DELETED"

\* ensureNotDeleted throws exactly when the source is deleted.
ensureNotDeleted(e) == ~isDeleted(e)

markAsProcessing(e, t) ==
    IF ~ensureNotDeleted(e) THEN Throw(e, "Cannot modify deleted source")
    ELSE Ok([e EXCEPT !.status = "PROCESSING", !.updatedAt = t])

markAsCompleted(e, t) ==
    IF ~ensureNotDeleted(e) THEN Throw(e, "Cannot modify deleted source")
    ELSE IF e.status # "PROCESSING"
         THEN Throw(e, "Cannot mark as completed: source is not being processed")
         ELSE Ok([e EXCEPT !.status = "COMPLETED", !.updatedAt = t])

markAsFailed(e, msg, t) ==
    IF ~ensureNotDeleted(e) THEN Throw(e, "Cannot modify deleted source")
    ELSE Ok([e EXCEPT !.status = "FAILED", !.errorMessage = msg, !.updatedAt = t])

delete(e, t) ==
    Ok([e EXCEPT !.status = "DELETED", !.deletedAt = t, !.updatedAt = t])

\* { ...this.metadata, ...newMetadata }: a key of newMetadata wins.
MergeMetadata(old, new) ==
    [k \in MetaKeys |-> IF new[k] # NULL THEN new[k] ELSE old[k]]

updateMetadata(e, md, t) ==
    IF ~ensureNotDeleted(e) THEN Throw(e, "Cannot modify deleted source")
    ELSE Ok([e EXCEPT !.metadata = MergeMetadata(@, md), !.updatedAt = t])

(***************************************************************************)
(* SpecEntity: any caller calls any method of one KnowledgeSource.         *)
(***************************************************************************)
EntityCall(op, res) ==
    /\ clock < MaxClock
    /\ ks' = res.ent
    /\ lastCall' = [op |-> op, threw |-> res.threw, before |-> ks.status]
    /\ clock' = clock + 1
    /\ UNCHANGED <<sourceTable, fragmentTable, run, vs, q, eb, conversationTable, qa, cv>>

CallMarkAsProcessing == EntityCall("markAsProcessing", markAsProcessing(ks, clock + 1))

CallMarkAsCompleted == EntityCall("markAsCompleted", markAsCompleted(ks, clock + 1))

CallMarkAsFailed ==
    \E msg \in ErrorMessages :
        EntityCall("markAsFailed", markAsFailed(ks, msg, clock + 1))

CallDelete == EntityCall("delete", delete(ks, clock + 1))

CallUpdateMetadata ==
    \E md \in Metadatas \ {NoMetadata} :
        EntityCall("updateMetadata", updateMetadata(ks, md, clock + 1))

EntityNext ==
    \/ CallMarkAsProcessing
    \/ CallMarkAsCompleted
    \/ CallMarkAsFailed
    \/ CallDelete
    \/ CallUpdateMetadata

(***************************************************************************)
(* Persistence of sources and fragments (knowledge-source.mapper.ts,       *)
(* knowledge.repository.ts).                                               *)
(***************************************************************************)
SourceIds == 1..MaxRuns

\* KnowledgeSourceMapper.toModel: every field of the entity but the error
\* message, which the mapper sets to null.
toModel(e) == [e EXCEPT !.errorMessage = NULL]

\* KnowledgeSourceMapper.toDomain: a new entity with id, status and the
\* timestamps set from the row; errorMessage is not read.
toDomain(m) == [m EXCEPT !.errorMessage = NULL]

FreeSourceIds(tbl) == {i \in SourceIds : tbl[i] = NoRow}
NextSourceId(tbl) == CHOOSE i \in FreeSourceIds(tbl) : \A j \in FreeSourceIds(tbl) : i <= j

\* sourceRepository.save(model): an insert with a generated id when the model
\* has none, an update of the row otherwise.
SavedRow(tbl, e) ==
    LET m == toModel(e)
    IN IF m.id = NoId THEN [m EXCEPT !.id = NextSourceId(tbl)] ELSE m

\* KnowledgeRepository.saveSource: the table after the save.
saveSourceTable(tbl, e) ==
    LET row == SavedRow(tbl, e) IN [tbl EXCEPT ![row.id] = row]

\* KnowledgeRepository.saveSource: the entity it returns.
saveSourceResult(tbl, e) == toDomain(SavedRow(tbl, e))

\* KnowledgeRepository.findSourceById
findSourceById(tbl, id) == IF tbl[id] = NoRow THEN NoRow ELSE toDomain(tbl[id])

NextFragmentId(tbl) == Cardinality(tbl) + 1

\* KnowledgeRepository.saveFragments: one row per fragment, ids generated in
\* the order of the list.
saveFragments(tbl, frags) ==
    tbl \cup {[id |-> NextFragmentId(tbl) + i - 1,
               sourceId |-> frags[i].sourceId,
               content |-> frags[i].content,
               embedding |-> frags[i].embedding,
               position |-> frags[i].position] : i \in 1..Len(frags)}

(***************************************************************************)
(* Fragment entity (fragment.entity.ts) and the chunks it is built from.   *)
(***************************************************************************)
MIN_CONTENT_LENGTH == 10
ContentLengths == {5, 20}
Dimensions == {768, 3072}
VALID_DIMENSIONS == {768, 1536}

\* Fragment.validate: TRUE when the constructor accepts the data.
FragmentValid(data) ==
    /\ data.sourceId # NoId
    /\ data.chars >= MIN_CONTENT_LENGTH
    /\ data.position >= 0
    /\ data.embedding.dim \in VALID_DIMENSIONS

\* The chunk lists ChunkingService.chunk may return for run r: 1..MaxChunks
\* chunks at positions 0..n-1, each with a content of its own.
ChunkLists(r) ==
    UNION {{[i \in 1..n |-> [content |-> <<r, i>>, position |-> i - 1, chars |-> len[i]]] :
              len \in [1..n -> ContentLengths]} : n \in 1..MaxChunks}

\* What the embedding provider returns for a text, at the configured dimension.
EmbeddingOf(text, dim) == [text |-> text, dim |-> dim]

\* A variant of the pairing that gives chunk i the embedding of the next index.
BuildFragmentsShifted(sourceId, chunks, embeddings) ==
    [i \in 1..Len(chunks) |->
        [sourceId |-> sourceId, content |-> chunks[i].content,
         position |-> chunks[i].position, chars |-> chunks[i].chars,
         embedding |-> embeddings[(i % Len(chunks)) + 1]]]

\* chunks.map((chunk, index) => new Fragment({... embedding: embeddings[index]}))
BuildFragments(sourceId, chunks, embeddings) ==
    [i \in 1..Len(chunks) |->
        [sourceId |-> sourceId, content |-> chunks[i].content,
         position |-> chunks[i].position, chars |-> chunks[i].chars,
         embedding |-> embeddings[i]]]

(***************************************************************************)
(* SpecIngest: IngestDocumentUseCase.execute, one action per await.        *)
(* A run that throws goes through the catch block, which logs and          *)
(* re-throws: pc "thrown" with the error's message.                        *)
(***************************************************************************)
Runs == 1..MaxRuns

IdleRun == [pc |-> "idle", sector |-> NULL, source |-> NoRow, persisted |-> FALSE,
            chunks |-> <<>>, fragments |-> <<>>, fragmentsSaved |-> FALSE,
            calls |-> <<>>, error |-> NULL, result |-> NoRow]

\* The error leaves execute: its chunk list goes out of scope.
Thrown(r, msg) ==
    run' = [run EXCEPT ![r].pc = "thrown", ![r].error = msg, ![r].chunks = <<>>]

IngestUnchanged ==
    UNCHANGED <<ks, lastCall, clock, vs, q, eb, conversationTable, qa, cv>>

\* The tenant scope of run r's dto.
DtoSector(r) == IF r % 2 = 1 THEN "sectorA" ELSE "sectorB"

\* execute(dto): validateInput, then the parser is called.
IngestExecute(r) ==
    /\ run[r].pc = "idle"
    /\ \E valid \in BOOLEAN :
          IF ~valid
          THEN Thrown(r, "Title cannot be empty")
          ELSE run' = [run EXCEPT ![r].pc = "parsing", ![r].sector = DtoSector(r),
                                  ![r].calls = <<"parse">>]
    /\ UNCHANGED <<sourceTable, fragmentTable>>
    /\ IngestUnchanged

\* A variant of IngestParsed that persists the PENDING entity before the
\* parser has returned, so that a parse failure leaves a row.
IngestParsedPersisting(r) ==
    /\ run[r].pc = "parsing"
    /\ FreeSourceIds(sourceTable) # {}
    /\ LET pending == NewKnowledgeSource(run[r].sector, NoMetadata, clock)
           saved == saveSourceResult(sourceTable, pending)
       IN /\ sourceTable' = saveSourceTable(sourceTable, pending)
          /\ \/ Thrown(r, "Failed to parse PDF")
             \/ run' = [run EXCEPT ![r].pc = "savingProcessing",
                                   ![r].source = markAsProcessing(saved, clock).ent,
                                   ![r].calls = Append(@, "saveSource")]
    /\ UNCHANGED fragmentTable
    /\ IngestUnchanged

\* parse returns or throws; on return the entity is built, marked PROCESSING
\* and handed to saveSource.
IngestParsed(r) ==
    /\ run[r].pc = "parsing"
    /\ \/ Thrown(r, "Failed to parse PDF")
       \/ LET res == markAsProcessing(
                         NewKnowledgeSource(run[r].sector, NoMetadata, clock), clock)
          IN IF res.threw THEN Thrown(r, res.err)
             ELSE run' = [run EXCEPT ![r].pc = "savingProcessing", ![r].source = res.ent,
                                     ![r].calls = Append(@, "saveSource")]
    /\ UNCHANGED <<sourceTable, fragmentTable>>
    /\ IngestUnchanged

\* The first saveSource returns (or throws); on return the content is chunked
\* and generateDocumentEmbeddings is called with the chunk texts.
IngestSourceSaved(r) ==
    /\ run[r].pc = "savingProcessing"
    /\ \/ /\ Thrown(r, "Database error")
          /\ UNCHANGED sourceTable
       \/ /\ FreeSourceIds(sourceTable) # {}
          /\ sourceTable' = saveSourceTable(sourceTable, run[r].source)
          /\ LET saved == saveSourceResult(sourceTable, run[r].source)
             IN \/ \E chunks \in ChunkLists(r) :
                      run' = [run EXCEPT ![r].pc = "embedding", ![r].source = saved,
                                         ![r].persisted = TRUE, ![r].chunks = chunks,
                                         ![r].calls = @ \o <<"chunk",
                                                             "generateDocumentEmbeddings">>]
                \/ run' = [run EXCEPT ![r].pc = "thrown", ![r].source = saved,
                                      ![r].persisted = TRUE,
                                      ![r].calls = Append(@, "chunk"),
                                      ![r].error = "Chunking failed"]
    /\ UNCHANGED fragmentTable
    /\ IngestUnchanged

\* generateDocumentEmbeddings returns one embedding per chunk text (or throws);
\* on return the fragments are built and handed to saveFragments.
IngestEmbedded(r) ==
    /\ run[r].pc = "embedding"
    /\ \/ Thrown(r, "API rate limit exceeded")
       \/ \E dim \in Dimensions :
            LET embeddings == [i \in 1..Len(run[r].chunks) |->
                                  EmbeddingOf(run[r].chunks[i].content, dim)]
                frags == BuildFragments(run[r].source.id, run[r].chunks, embeddings)
                bad == CHOOSE i \in 1..Len(frags) :
                           /\ ~FragmentValid(frags[i])
                           /\ \A j \in 1..(i - 1) : FragmentValid(frags[j])
            IN IF \E i \in 1..Len(frags) : ~FragmentValid(frags[i])
               THEN Thrown(r, IF frags[bad].chars < MIN_CONTENT_LENGTH
                              THEN "Content must be at least 10 characters long"
                              ELSE "Embedding must be 768 or 1536 dimensions")
               ELSE run' = [run EXCEPT ![r].pc = "savingFragments", ![r].fragments = frags,
                                       ![r].calls = Append(@, "saveFragments")]
    /\ UNCHANGED <<sourceTable, fragmentTable>>
    /\ IngestUnchanged

\* A variant of IngestFragmentsSaved that swallows a failed saveFragments and
\* goes on to mark the source COMPLETED.
IngestFragmentsSavedSwallowing(r) ==
    /\ run[r].pc = "savingFragments"
    /\ \/ /\ UNCHANGED fragmentTable
          /\ run' = [run EXCEPT ![r].pc = "savingCompleted",
                                ![r].source = markAsCompleted(run[r].source, clock).ent]
       \/ /\ fragmentTable' = saveFragments(fragmentTable, run[r].fragments)
          /\ run' = [run EXCEPT ![r].pc = "savingCompleted",
                                ![r].fragmentsSaved = TRUE,
                                ![r].source = markAsCompleted(run[r].source, clock).ent]
    /\ UNCHANGED sourceTable
    /\ IngestUnchanged

\* saveFragments returns (or throws); on return the source is marked COMPLETED
\* and handed to saveSource again.
IngestFragmentsSaved(r) ==
    /\ run[r].pc = "savingFragments"
    /\ \/ /\ Thrown(r, "Database error")
          /\ UNCHANGED fragmentTable
       \/ /\ fragmentTable' = saveFragments(fragmentTable, run[r].fragments)
          /\ LET res == markAsCompleted(run[r].source, clock)
             IN IF res.threw
                THEN run' = [run EXCEPT ![r].pc = "thrown", ![r].fragmentsSaved = TRUE,
                                        ![r].error = res.err]
                ELSE run' = [run EXCEPT ![r].pc = "savingCompleted",
                                        ![r].fragmentsSaved = TRUE,
                                        ![r].source = res.ent,
                                        ![r].calls = Append(@, "saveSource")]
    /\ UNCHANGED sourceTable
    /\ IngestUnchanged

\* The second saveSource returns (or throws); on return the result is built.
IngestCompleted(r) ==
    /\ run[r].pc = "savingCompleted"
    /\ \/ /\ Thrown(r, "Database error")
          /\ UNCHANGED sourceTable
       \/ /\ sourceTable' = saveSourceTable(sourceTable, run[r].source)
          /\ run' = [run EXCEPT ![r].pc = "done",
                                ![r].result = [sourceId |-> run[r].source.id,
                                               fragmentCount |-> Len(run[r].fragments),
                                               status |-> "COMPLETED"]]
    /\ UNCHANGED fragmentTable
    /\ IngestUnchanged

IngestNext ==
    \E r \in Runs :
        \/ IngestExecute(r)
        \/ IngestParsed(r)
        \/ IngestSourceSaved(r)
        \/ IngestEmbedded(r)
        \/ IngestFragmentsSaved(r)
        \/ IngestCompleted(r)

(***************************************************************************)
(* Vector retrieval (knowledge.repository.ts). Embeddings are vectors of   *)
(* the plane with integer norms, so that cosine similarity is exact;       *)
(* similarities and thresholds are in hundredths.                          *)
(***************************************************************************)
DEFAULT_VECTOR_SEARCH_LIMIT == 5
DEFAULT_SIMILARITY_THRESHOLD == 70

Vectors == {<<1, 0>>, <<3, 4>>, <<0, 1>>}
\* a fragment row whose embedding column is NULL
NoVector == <<>>

Dot(a, b) == a[1] * b[1] + a[2] * b[2]
Norm(a) == CHOOSE n \in 0..5 : n * n = Dot(a, a)

\* pgvector's a <=> b: the cosine distance.
CosineDistance(a, b) == 100 - (100 * Dot(a, b)) \div (Norm(a) * Norm(b))

\* (1 - (f.embedding <=> $1::vector)) as similarity
Similarity(a, b) == 100 - CosineDistance(a, b)

Min(a, b) == IF a <= b THEN a ELSE b

\* A variant of the WHERE clause that leaves out ks.sector_id = $2.
CandidatesAnySector(ftbl, stbl, embedding, sectorId, threshold) ==
    {f \in ftbl :
        /\ stbl[f.sourceId] # NoRow
        /\ f.embedding # NoVector
        /\ Similarity(f.embedding, embedding) >= threshold}

\* A variant of the WHERE clause that leaves out the similarity comparison.
CandidatesAnySimilarity(ftbl, stbl, embedding, sectorId, threshold) ==
    {f \in ftbl :
        /\ stbl[f.sourceId] # NoRow
        /\ stbl[f.sourceId].sectorId = sectorId
        /\ f.embedding # NoVector}

\* FROM fragments f INNER JOIN knowledge_sources ks ON f.source_id = ks.id
\* WHERE ks.sector_id = $2 AND f.embedding IS NOT NULL AND similarity >= $3
Candidates(ftbl, stbl, embedding, sectorId, threshold) ==
    {f \in ftbl :
        /\ stbl[f.sourceId] # NoRow
        /\ stbl[f.sourceId].sectorId = sectorId
        /\ f.embedding # NoVector
        /\ Similarity(f.embedding, embedding) >= threshold}

\* A variant of the ordering that leaves out LIMIT $4.
OrderedUnlimited(rows, embedding, limit) ==
    LET k == Cardinality(rows)
        sim(f) == Similarity(f.embedding, embedding)
    IN {s \in [1..k -> rows] :
          \A i, j \in 1..k : i < j => s[i] # s[j] /\ sim(s[i]) >= sim(s[j])}

\* ORDER BY similarity DESC LIMIT $4: every list of min(limit, |rows|) rows in
\* non-increasing similarity that leaves out no row above one it holds. Rows
\* of equal similarity come in any order.
OrderedLimited(rows, embedding, limit) ==
    LET k == Min(limit, Cardinality(rows))
        sim(f) == Similarity(f.embedding, embedding)
    IN {s \in [1..k -> rows] :
          /\ \A i, j \in 1..k : i < j => s[i] # s[j] /\ sim(s[i]) >= sim(s[j])
          /\ \A f \in rows : (\A i \in 1..k : s[i] # f) =>
                                 \A i \in 1..k : sim(s[i]) >= sim(f)}

\* The mapping of a raw row to a FragmentWithSimilarity.
WithSimilarity(f, embedding) ==
    [id |-> f.id, sourceId |-> f.sourceId, content |-> f.content,
     embedding |-> f.embedding, position |-> f.position,
     similarity |-> Similarity(f.embedding, embedding)]

\* KnowledgeRepository.vectorSearch: the lists it may return. An omitted
\* limit or similarityThreshold takes its default.
vectorSearch(ftbl, stbl, embedding, sectorId, limit, similarityThreshold) ==
    LET lim == IF limit = NoArg THEN DEFAULT_VECTOR_SEARCH_LIMIT ELSE limit
        th == IF similarityThreshold = NoArg
              THEN DEFAULT_SIMILARITY_THRESHOLD ELSE similarityThreshold
        rows == Candidates(ftbl, stbl, embedding, sectorId, th)
    IN {[i \in 1..Len(s) |-> WithSimilarity(s[i], embedding)] :
           s \in OrderedLimited(rows, embedding, lim)}

(***************************************************************************)
(* SpecSearch: callers of KnowledgeRepository.vectorSearch on a database   *)
(* of sources of two tenants and their fragments.                          *)
(***************************************************************************)
QueryVectors == {<<1, 0>>, <<3, 4>>}
LimitArgs == {NoArg, 1, 2}
ThresholdArgs == {NoArg, 0, 50, 99}

SectorOfSource(i) == IF i % 2 = 1 THEN "sectorA" ELSE "sectorB"

\* The sources of a populated database: source i belongs to SectorOfSource(i).
StoredSources ==
    [i \in SourceIds |->
        [NewKnowledgeSource(SectorOfSource(i), NoMetadata, 0)
            EXCEPT !.id = i, !.status = "COMPLETED"]]

\* The sources that own the stored fragments: one of each tenant.
StoredSourceIds == {i \in SourceIds : i <= 2}

\* The fragment tables of a populated database: MaxFrags rows, each of any
\* stored source and with any stored embedding or none.
StoredFragmentTables ==
    {{[id |-> i, sourceId |-> row[i][1], content |-> <<0, i>>,
       embedding |-> row[i][2], position |-> i - 1] : i \in 1..MaxFrags} :
        row \in [1..MaxFrags -> StoredSourceIds \X (Vectors \cup {NoVector})]}

VectorSearchCall ==
    /\ ~vs.called
    /\ \E e \in QueryVectors, s \in Sectors, l \in LimitArgs, t \in ThresholdArgs :
          \E res \in vectorSearch(fragmentTable, sourceTable, e, s, l, t) :
              vs' = [called |-> TRUE, embedding |-> e, sectorId |-> s,
                     limit |-> l, threshold |-> t, result |-> res]
    /\ UNCHANGED <<ks, lastCall, clock, sourceTable, fragmentTable, run, q, eb,
                   conversationTable, qa, cv>>

SearchNext == VectorSearchCall

\* KnowledgeRepository.softDeleteSource: sourceRepository.softDelete(id) sets
\* deleted_at (and updated_at) of the row that is not deleted yet; the
\* fragments rows are left alone.
softDeleteSource(stbl, id, now) ==
    IF stbl[id] # NoRow /\ stbl[id].deletedAt = NoDate
    THEN [stbl EXCEPT ![id].deletedAt = now, ![id].updatedAt = now]
    ELSE stbl

\* A caller soft-deletes a source before the search.
SoftDeleteSourceCall ==
    /\ ~vs.called
    /\ clock < MaxClock
    /\ \E id \in SourceIds :
          /\ sourceTable[id] # NoRow
          /\ sourceTable[id].deletedAt = NoDate
          /\ sourceTable' = softDeleteSource(sourceTable, id, clock + 1)
    /\ clock' = clock + 1
    /\ UNCHANGED <<ks, lastCall, fragmentTable, run, vs, q, eb,
                   conversationTable, qa, cv>>

SoftDeleteNext ==
    \/ SoftDeleteSourceCall
    \/ VectorSearchCall

(***************************************************************************)
(* The RAG query flow (rag-query.flow.ts) as wired by InteractionModule.   *)
(***************************************************************************)
DEFAULT_MAX_RESULTS == 5
MAX_RESULTS_LIMIT == 10
DEFAULT_MIN_SIMILARITY == 70
MIN_SIMILARITY_MAX == 100

FALLBACK_RESPONSE ==
    "I don't have information about that in the current documentation. Please contact HR or your manager for more specific guidance."
Answers == {"generated answer"}

MaxResultsArgs == {NoArg, 1, 2, 11}
MinSimilarityArgs == {NoArg, 50, 90, 150}

\* ragQueryInputSchema.parse: defaults for the omitted fields; a field out of
\* its range makes parse throw.
ragQueryInputSchema(input) ==
    LET mr == IF input.maxResults = NoArg THEN DEFAULT_MAX_RESULTS ELSE input.maxResults
        ms == IF input.minSimilarity = NoArg
              THEN DEFAULT_MIN_SIMILARITY ELSE input.minSimilarity
    IN [ok |-> /\ input.query # ""
               /\ mr >= 1 /\ mr <= MAX_RESULTS_LIMIT
               /\ ms >= 0 /\ ms <= MIN_SIMILARITY_MAX,
        query |-> input.query, sectorId |-> input.sectorId,
        conversationId |-> input.conversationId,
        maxResults |-> mr, minSimilarity |-> ms]

\* InteractionModule's vectorSearchFn: it passes embedding, sectorId and limit
\* to the repository and no threshold.
vectorSearchFn(ftbl, stbl, embedding, sectorId, limit) ==
    vectorSearch(ftbl, stbl, embedding, sectorId, limit, NoArg)

\* A variant of the filter of step 3 that keeps every fragment.
RelevantFragmentsUnfiltered(allFragments, minSimilarity) == allFragments

\* allFragments.filter((f) => f.similarity >= validatedInput.minSimilarity)
RelevantFragments(allFragments, minSimilarity) ==
    SelectSeq(allFragments, LAMBDA f : f.similarity >= minSimilarity)

\* The source entries of the output: fragmentSchema's fields.
AsSources(frags) ==
    [i \in 1..Len(frags) |->
        [id |-> frags[i].id, sourceId |-> frags[i].sourceId,
         content |-> frags[i].content, similarity |-> frags[i].similarity]]

\* buildPrompt(query, fragments): the numbered excerpts and the user question
\* of the prompt (the system framing around them is fixed text).
buildPrompt(query, fragments) ==
    [context |-> [i \in 1..Len(fragments) |-> <<i, fragments[i].content>>],
     question |-> query]

NoPrompt == [context |-> <<>>, question |-> NULL]

\* executeQuery(input) up to its first await: the input is validated and
\* ai.embed is called with the embedder and the query as content, and no
\* options.
executeQueryStart(input) ==
    LET validated == ragQueryInputSchema(input)
    IN [pc |-> IF validated.ok THEN "embedding" ELSE "thrown",
        input |-> input, validated |-> validated,
        embedCall |-> IF validated.ok
                      THEN [content |-> validated.query, taskType |-> NULL]
                      ELSE [content |-> NULL, taskType |-> NULL],
        queryEmbedding |-> NoVector, searched |-> FALSE,
        allFragments |-> <<>>, relevantFragments |-> <<>>,
        embedCalls |-> IF validated.ok THEN 1 ELSE 0,
        searchCalls |-> 0, generateCalls |-> 0, prompt |-> NoPrompt,
        response |-> NULL, sources |-> <<>>,
        error |-> IF validated.ok THEN NULL ELSE "ZodError"]

\* ai.embed returns (or throws, or returns no embedding array); on a vector
\* vectorSearch is called.
executeQueryEmbedded(f) ==
    {[f EXCEPT !.pc = "thrown", !.error = "Failed to generate query embedding"]}
    \cup {[f EXCEPT !.pc = "searching", !.queryEmbedding = e, !.searchCalls = 1] :
             e \in QueryVectors}

\* vectorSearch returns (or throws); the fragments are filtered, and either
\* the fallback is returned or the prompt is built and ai.generate called.
executeQuerySearched(f, ftbl, stbl) ==
    {[f EXCEPT !.pc = "thrown", !.error = "Database error"]}
    \cup {LET relevant == RelevantFragments(all, f.validated.minSimilarity)
          IN IF Len(relevant) = 0
             THEN [f EXCEPT !.pc = "done", !.searched = TRUE,
                            !.allFragments = all, !.relevantFragments = relevant,
                            !.response = FALLBACK_RESPONSE, !.sources = <<>>]
             ELSE [f EXCEPT !.pc = "generating", !.searched = TRUE,
                            !.allFragments = all, !.relevantFragments = relevant,
                            !.prompt = buildPrompt(f.validated.query, relevant),
                            !.generateCalls = 1] :
          all \in vectorSearchFn(ftbl, stbl, f.queryEmbedding,
                                 f.validated.sectorId, f.validated.maxResults)}

\* A variant of the generation step that answers with the fallback text when
\* ai.generate throws.
executeQueryGeneratedOrFallback(f) ==
    {[f EXCEPT !.pc = "done", !.response = FALLBACK_RESPONSE, !.sources = <<>>]}
    \cup {[f EXCEPT !.pc = "done", !.response = text,
                    !.sources = AsSources(f.relevantFragments)] : text \in Answers}

\* ai.generate returns its text (or throws).
executeQueryGenerated(f) ==
    {[f EXCEPT !.pc = "thrown", !.error = "Generation failed"]}
    \cup {[f EXCEPT !.pc = "done", !.response = text,
                    !.sources = AsSources(f.relevantFragments)] : text \in Answers}

\* executeQuery(input) from call to settlement: the runs it may end in.
executeQuery(input, ftbl, stbl) ==
    LET s0 == executeQueryStart(input)
        s1 == IF s0.pc = "embedding" THEN executeQueryEmbedded(s0) ELSE {s0}
        s2 == UNION {IF f.pc = "searching"
                     THEN executeQuerySearched(f, ftbl, stbl) ELSE {f} : f \in s1}
    IN UNION {IF f.pc = "generating" THEN executeQueryGenerated(f) ELSE {f} : f \in s2}

QueryUnchanged ==
    UNCHANGED <<ks, lastCall, clock, sourceTable, fragmentTable, run, vs, eb,
                conversationTable, qa, cv>>

\* The queries a caller of executeQuery may pass: a question or the empty string.
FlowQueries == {"What is the policy?", ""}

QueryStart ==
    /\ q.pc = "idle"
    /\ \E query \in FlowQueries, s \in Sectors,
          mr \in MaxResultsArgs, ms \in MinSimilarityArgs :
          q' = executeQueryStart([query |-> query, sectorId |-> s,
                                  conversationId |-> NULL,
                                  maxResults |-> mr, minSimilarity |-> ms])
    /\ QueryUnchanged

QueryEmbedded ==
    /\ q.pc = "embedding"
    /\ q' \in executeQueryEmbedded(q)
    /\ QueryUnchanged

QuerySearched ==
    /\ q.pc = "searching"
    /\ q' \in executeQuerySearched(q, fragmentTable, sourceTable)
    /\ QueryUnchanged

QueryGenerated ==
    /\ q.pc = "generating"
    /\ q' \in executeQueryGenerated(q)
    /\ QueryUnchanged

QueryNext ==
    \/ QueryStart
    \/ QueryEmbedded
    \/ QuerySearched
    \/ QueryGenerated

(***************************************************************************)
(* Batched embedding generation (embedding.service.ts).                    *)
(***************************************************************************)
DEFAULT_EMBEDDING_DIMENSIONS == 3072

\* The texts a caller may pass: two texts, a blank one and null.
TextValues == {"first text", "second text", " ", NULL}
BatchSizes == {1, 2, 3}
TextLists == UNION {[1..n -> TextValues] : n \in 0..MaxTexts}

\* text.trim(), on the texts of the model
Trim(text) ==
    CASE text = " " -> ""
      [] text = " How do I request vacation? " -> "How do I request vacation?"
      [] OTHER -> text

\* EmbeddingService.validateInput: the message of the error it throws, or
\* NULL when it returns.
validateInput(text) ==
    IF text = NULL THEN "Text cannot be null or undefined"
    ELSE IF Trim(text) = "" THEN "Text cannot be empty"
    ELSE NULL

\* A variant of the validation that looks at the first text only.
ValidateFirstOnly(texts) == validateInput(texts[1])

\* texts.forEach((text) => this.validateInput(text)): the first error.
ValidateAll(texts) ==
    IF \A i \in 1..Len(texts) : validateInput(texts[i]) = NULL THEN NULL
    ELSE LET first == CHOOSE i \in 1..Len(texts) :
                          /\ validateInput(texts[i]) # NULL
                          /\ \A j \in 1..(i - 1) : validateInput(texts[j]) = NULL
         IN validateInput(texts[first])

\* A variant of the batch slice that takes every remaining text.
WindowUnbounded(n, start, batchSize) == start..n

\* texts.slice(i, i + batchSize), as the indices (from 1) of its texts.
Window(n, start, batchSize) == start..Min(start + batchSize - 1, n)

\* A variant that puts a window's embeddings before the earlier ones.
PushPrepending(embeddings, batchEmbeddings) == batchEmbeddings \o embeddings

\* embeddings.push(...batchEmbeddings)
Push(embeddings, batchEmbeddings) == embeddings \o batchEmbeddings

\* batch.map((text) => this.generateEmbedding(text, taskType)): a provider
\* call is issued for each text of the window.
IssueWindow(e, start) ==
    [e EXCEPT !.start = start,
              !.call = [i \in DOMAIN e.call |->
                           IF i \in Window(Len(e.texts), start, e.batchSize)
                           THEN "inFlight" ELSE e.call[i]]]

\* Promise.all resolved for the window at e.start: its values are pushed in
\* the order of the window, and the loop goes on or returns.
WindowResolved(e) ==
    LET n == Len(e.texts)
        w == Window(n, e.start, e.batchSize)
        first == e.start
        batchEmbeddings == [k \in 1..Cardinality(w) |-> e.value[first + k - 1]]
        embeddings == Push(e.embeddings, batchEmbeddings)
        next == e.start + e.batchSize
    IN IF next <= n
       THEN IssueWindow([e EXCEPT !.embeddings = embeddings], next)
       ELSE [e EXCEPT !.embeddings = embeddings, !.pc = "resolved",
                      !.result = embeddings]

\* A variant of the rejection of a call that lets the loop go on as if the
\* call had returned.
OnRejectedIgnoring(e, i, cause) ==
    LET f == [e EXCEPT !.call[i] = "failed"]
    IN IF e.pc = "running"
          /\ \A j \in Window(Len(e.texts), e.start, e.batchSize) : f.call[j] # "inFlight"
       THEN WindowResolved(f)
       ELSE f

\* generateEmbedding(texts[i]) rejects: while the batch is pending Promise.all
\* rejects with that error and generateEmbeddings throws it.
OnRejected(e, i, cause) ==
    LET f == [e EXCEPT !.call[i] = "failed"]
    IN IF e.pc = "running"
       THEN [f EXCEPT !.pc = "rejected",
                      !.error = [message |-> "Failed to generate embedding",
                                 cause |-> cause, index |-> i]]
       ELSE f

\* generateEmbedding(texts[i]) returns its vector: Promise.all resolves once
\* every call of the window has.
OnResolved(e, i) ==
    LET f == [e EXCEPT !.call[i] = "ok",
                       !.value[i] = EmbeddingOf(e.texts[i], DEFAULT_EMBEDDING_DIMENSIONS),
                       !.outOfOrder = @ \/ \E j \in 1..(i - 1) : e.call[j] = "inFlight"]
    IN IF e.pc = "running"
          /\ \A j \in Window(Len(e.texts), e.start, e.batchSize) : f.call[j] = "ok"
       THEN WindowResolved(f)
       ELSE f

EmbedUnchanged ==
    UNCHANGED <<ks, lastCall, clock, sourceTable, fragmentTable, run, vs, q,
                conversationTable, qa, cv>>

\* generateEmbeddings(texts): an empty list returns [], an invalid text
\* throws, and otherwise the first window's calls are issued.
GenerateEmbeddings ==
    /\ eb.pc = "idle"
    /\ \E texts \in TextLists, batchSize \in BatchSizes :
          LET e == [pc |-> "running", texts |-> texts, batchSize |-> batchSize,
                    start |-> 1,
                    call |-> [i \in 1..Len(texts) |-> "notIssued"],
                    value |-> [i \in 1..Len(texts) |-> EmbeddingOf(NULL, 0)],
                    response |-> [i \in 1..Len(texts) |-> NULL],
                    embeddings |-> <<>>, result |-> <<>>,
                    error |-> [message |-> NULL, cause |-> NULL, index |-> 0],
                    outOfOrder |-> FALSE]
          IN IF Len(texts) = 0
             THEN eb' = [e EXCEPT !.pc = "resolved"]
             ELSE IF ValidateAll(texts) # NULL
             THEN eb' = [e EXCEPT !.pc = "rejected", !.error.message = ValidateAll(texts)]
             ELSE eb' = IssueWindow(e, 1)
    /\ EmbedUnchanged

\* What ai.embed may do with a call: answer with an array whose first
\* element holds the vector, answer with something else, or reject.
WellFormedResponse == "[{embedding}]"
MalformedResponses == {"not an array", "[]", "[{}]"}
ProviderRejection == "rejects"

\* The body of generateEmbedding's try block: the message of the error
\* thrown in it, or NULL when it returns result[0].embedding.
ThrownInTry(response) ==
    IF response = ProviderRejection THEN "API Error"
    ELSE IF response \in MalformedResponses THEN "Invalid embedding response format"
    ELSE NULL

\* The provider answers call i with a well-formed response.
ProviderReturns(i) ==
    /\ eb.pc # "idle"
    /\ eb.call[i] = "inFlight"
    /\ ThrownInTry(WellFormedResponse) = NULL
    /\ eb' = [OnResolved(eb, i) EXCEPT !.response[i] = WellFormedResponse]
    /\ EmbedUnchanged

\* The provider rejects call i, or answers it with a malformed response:
\* the catch block of generateEmbedding wraps what the try block threw.
ProviderFails(i) ==
    /\ eb.pc # "idle"
    /\ eb.call[i] = "inFlight"
    /\ \E response \in MalformedResponses \cup {ProviderRejection} :
          eb' = [OnRejected(eb, i, ThrownInTry(response)) EXCEPT !.response[i] = response]
    /\ EmbedUnchanged

EmbedNext ==
    \/ GenerateEmbeddings
    \/ \E i \in 1..MaxTexts : i \in DOMAIN eb.call /\ ProviderReturns(i)
    \/ \E i \in 1..MaxTexts : i \in DOMAIN eb.call /\ ProviderFails(i)

(***************************************************************************)
(* Message and Conversation entities (message.entity.ts,                   *)
(* conversation.entity.ts).                                                *)
(***************************************************************************)
NoConversation == [id |-> NULL]

\* new Message({conversationId, role, content, metadata}): the content is
\* trimmed. id stands for the generated UUID.
NewMessage(id, conversationId, role, content, metadata) ==
    [id |-> id, conversationId |-> conversationId, role |-> role,
     content |-> Trim(content), metadata |-> metadata]

\* The metadata of a message built without any.
NoMessageMetadata == [sourceFragments |-> <<>>, sourcesCount |-> NoArg]

\* Message.formatForPrompt: the role with its first letter in upper case,
\* ": " and the content.
formatForPrompt(msg) ==
    LET roleLabel == CASE msg.role = "user" -> "User"
                       [] msg.role = "assistant" -> "Assistant"
                       [] msg.role = "system" -> "System"
    IN roleLabel \o ": " \o msg.content

\* new Conversation({userId, sectorId}): no messages. id stands for the
\* generated UUID.
NewConversation(id, userId, sectorId) ==
    [id |-> id, userId |-> userId, sectorId |-> sectorId, messages |-> <<>>]

\* A variant of addMessage without the ownership check.
addMessageUnchecked(conv, msg) ==
    Ok([conv EXCEPT !.messages = Append(@, msg)])

\* A variant of addMessage that puts the message before the others.
addMessagePrepending(conv, msg) ==
    IF msg.conversationId # conv.id
    THEN Throw(conv, "Message does not belong to this conversation")
    ELSE Ok([conv EXCEPT !.messages = <<msg>> \o @])

\* Conversation.addMessage
addMessage(conv, msg) ==
    IF msg.conversationId # conv.id
    THEN Throw(conv, "Message does not belong to this conversation")
    ELSE Ok([conv EXCEPT !.messages = Append(@, msg)])

\* Conversation.hasMessages
hasMessages(conv) == Len(conv.messages) > 0

\* lines.join('\n')
RECURSIVE JoinLines(_)
JoinLines(lines) ==
    IF Len(lines) = 0 THEN ""
    ELSE IF Len(lines) = 1 THEN lines[1]
    ELSE lines[1] \o "\n" \o JoinLines(Tail(lines))

\* messages.slice(-n), for n > 0
SliceLast(messages, n) ==
    SubSeq(messages, IF Len(messages) > n THEN Len(messages) - n + 1 ELSE 1, Len(messages))

\* Conversation.getContextForPrompt(maxMessages): an omitted or zero
\* maxMessages takes every message.
getContextForPrompt(conv, maxMessages) ==
    LET messagesToInclude == IF maxMessages # NoArg /\ maxMessages # 0
                             THEN SliceLast(conv.messages, maxMessages)
                             ELSE conv.messages
    IN JoinLines([i \in 1..Len(messagesToInclude) |->
                     formatForPrompt(messagesToInclude[i])])

(***************************************************************************)
(* Conversation persistence (conversation.repository.interface.ts).        *)
(***************************************************************************)
\* IConversationRepository.findById
findById(tbl, id) == IF id \in DOMAIN tbl THEN tbl[id] ELSE NoConversation

\* IConversationRepository.findByUserAndSector: the conversations it may
\* return, NoConversation when the pair has none.
findByUserAndSector(tbl, userId, sectorId) ==
    LET matching == {tbl[id] : id \in {i \in DOMAIN tbl :
                        /\ tbl[i] # NoConversation
                        /\ tbl[i].userId = userId
                        /\ tbl[i].sectorId = sectorId}}
    IN IF matching = {} THEN {NoConversation} ELSE matching

\* IConversationRepository.save (create or update): the row and its messages
\* are inserted, or the messages the row does not hold yet are added to it.
saveConversation(tbl, conv) ==
    IF tbl[conv.id] = NoConversation THEN [tbl EXCEPT ![conv.id] = conv]
    ELSE LET stored == tbl[conv.id].messages
             isNew(m) == \A i \in 1..Len(stored) : stored[i].id # m.id
         IN [tbl EXCEPT ![conv.id].messages = stored \o SelectSeq(conv.messages, isNew)]

(***************************************************************************)
(* QueryAssistantUseCase (query-assistant.use-case.ts).                    *)
(***************************************************************************)
DEFAULT_CONTEXT_MESSAGE_LIMIT == 10

\* QueryAssistantUseCase.validateInput: the message of the error it throws,
\* or NULL when it returns.
validateQueryInput(input) ==
    IF input.userId = NULL \/ Trim(input.userId) = "" THEN "User ID is required"
    ELSE IF input.sectorId = NULL \/ Trim(input.sectorId) = "" THEN "Sector ID is required"
    ELSE IF input.query = NULL \/ Trim(input.query) = "" THEN "Query is required"
    ELSE NULL

\* A variant of getOrCreateConversation that creates a conversation when the
\* given id resolves to none.
getOrCreateConversationLenient(tbl, input, newId) ==
    IF input.conversationId # NULL /\ findById(tbl, input.conversationId) # NoConversation
    THEN {Ok(findById(tbl, input.conversationId))}
    ELSE {Ok(NewConversation(newId, input.userId, input.sectorId))}

\* QueryAssistantUseCase.getOrCreateConversation: what it may return or throw.
\* newId stands for the UUID a new conversation gets.
getOrCreateConversation(tbl, input, newId) ==
    IF input.conversationId # NULL /\ input.conversationId # ""
    THEN LET conversation == findById(tbl, input.conversationId)
         IN IF conversation = NoConversation
            THEN {Throw(NoConversation, "Conversation not found")}
            ELSE {Ok(conversation)}
    ELSE {IF existing # NoConversation THEN Ok(existing)
          ELSE Ok(NewConversation(newId, input.userId, input.sectorId)) :
             existing \in findByUserAndSector(tbl, input.userId, input.sectorId)}

\* QueryAssistantUseCase.buildContextualQuery
buildContextualQuery(conv, currentQuery) ==
    IF ~hasMessages(conv) THEN currentQuery
    ELSE LET context == getContextForPrompt(conv, DEFAULT_CONTEXT_MESSAGE_LIMIT)
         IN IF context # "" THEN context \o "\nUser: " \o currentQuery
            ELSE currentQuery

\* safeExecuteRagQuery: the fields it returns of a result it accepts.
safeExecuteRagQuery(result) ==
    [response |-> result.response, sources |-> result.sources,
     conversationId |-> result.validated.conversationId]

(***************************************************************************)
(* SpecAssistant: QueryAssistantUseCase.execute as wired by                *)
(* InteractionModule, one action per await, for two callers.               *)
(***************************************************************************)
MaxHistory == 11
MaxMessages == 3

QaRuns == {"q1", "q2"}
Users == {"user-1", "user-2"}
Queries == {"What is the policy?", " How do I request vacation? ", " "}
ConversationIdArgs == {NULL, "conv-1", "conv-2", "conv-missing"}
HistoryLengths == {0, 1, 2, MaxHistory - 1, MaxHistory}

\* The UUID the conversation created by run r gets.
NewConversationId(r) == "conv-of-" \o r

\* The inputs of run r: any input for the first caller; the second caller is
\* user-1 in sectorA, with or without the id of its conversation.
AssistantInputs(r) ==
    IF r = "q1"
    THEN {[userId |-> u, sectorId |-> s, query |-> query, conversationId |-> c,
           maxResults |-> b[1], minSimilarity |-> b[2]] :
             u \in Users, s \in Sectors, query \in Queries, c \in ConversationIdArgs,
             b \in {<<NoArg, NoArg>>, <<2, 50>>}}
    ELSE {[userId |-> "user-1", sectorId |-> "sectorA", query |-> "Where is the office?",
           conversationId |-> c, maxResults |-> NoArg, minSimilarity |-> NoArg] :
             c \in {NULL, "conv-1"}}

\* The stored conversations: conv-1 of user-1 in sectorA with k messages,
\* conv-2 of user-2 in sectorB with one message.
StoredConversations(k) ==
    LET stored(c, n) ==
            [i \in 1..n |->
                NewMessage(<<c, i>>, c, IF i % 2 = 1 THEN "user" ELSE "assistant",
                           "message " \o ToString(i) \o " of " \o c, NoMessageMetadata)]
    IN [c \in {"conv-1", "conv-2"} \cup {NewConversationId(r) : r \in QaRuns} |->
           CASE c = "conv-1" ->
                  [NewConversation(c, "user-1", "sectorA") EXCEPT !.messages = stored(c, k)]
             [] c = "conv-2" ->
                  [NewConversation(c, "user-2", "sectorB") EXCEPT !.messages = stored(c, 1)]
             [] OTHER -> NoConversation]

\* The fragments of the knowledge base the assistant queries: two of source 1
\* (sectorA) and one of source 2 (sectorB).
AssistantFragments ==
    {[id |-> 1, sourceId |-> 1, content |-> <<0, 1>>, embedding |-> <<1, 0>>, position |-> 0],
     [id |-> 2, sourceId |-> 1, content |-> <<0, 2>>, embedding |-> <<3, 4>>, position |-> 1],
     [id |-> 3, sourceId |-> 2, content |-> <<0, 3>>, embedding |-> <<1, 0>>, position |-> 2]}

IdleQaRun ==
    [pc |-> "idle", input |-> [query |-> NULL], found |-> NoConversation,
     prior |-> <<>>, conversation |-> NoConversation,
     ragQueryInput |-> [query |-> NULL], rag |-> [pc |-> "idle"],
     saveCalls |-> 0, error |-> NULL, output |-> [response |-> NULL]]

AssistantUnchanged ==
    UNCHANGED <<ks, lastCall, clock, sourceTable, fragmentTable, run, vs, q, eb, cv>>

\* execute(input): validateInput, then the conversation is looked up.
AssistantExecute(r) ==
    /\ qa[r].pc = "idle"
    /\ \E input \in AssistantInputs(r) :
          IF validateQueryInput(input) # NULL
          THEN qa' = [qa EXCEPT ![r].pc = "thrown", ![r].input = input,
                                ![r].error = validateQueryInput(input)]
          ELSE qa' = [qa EXCEPT ![r].pc = "finding", ![r].input = input]
    /\ UNCHANGED conversationTable
    /\ AssistantUnchanged

\* getOrCreateConversation returns (or throws); on a conversation the user
\* message is added, the contextual query built and the RAG flow called.
AssistantConversationResolved(r) ==
    /\ qa[r].pc = "finding"
    /\ \E res \in getOrCreateConversation(conversationTable, qa[r].input,
                                          NewConversationId(r)) :
          IF res.threw
          THEN qa' = [qa EXCEPT ![r].pc = "thrown", ![r].error = res.err]
          ELSE LET conversation == res.ent
                   userMessage == NewMessage(<<r, 1>>, conversation.id, "user",
                                             qa[r].input.query, NoMessageMetadata)
                   added == addMessage(conversation, userMessage)
                   contextualQuery == buildContextualQuery(added.ent, qa[r].input.query)
               IN IF added.threw
                  THEN qa' = [qa EXCEPT ![r].pc = "thrown", ![r].error = added.err]
                  ELSE qa' = [qa EXCEPT
                          ![r].pc = "ragQuery",
                          ![r].found = conversation,
                          ![r].prior = conversation.messages,
                          ![r].conversation = added.ent,
                          ![r].ragQueryInput =
                              [query |-> contextualQuery,
                               sectorId |-> qa[r].input.sectorId,
                               conversationId |-> conversation.id,
                               maxResults |-> qa[r].input.maxResults,
                               minSimilarity |-> qa[r].input.minSimilarity]]
    /\ UNCHANGED conversationTable
    /\ AssistantUnchanged

\* A variant of the step that saves the conversation, with the user message,
\* when the RAG flow throws.
AssistantRagSettledSavingOnFailure(r) ==
    /\ qa[r].pc = "ragQuery"
    /\ \E f \in executeQuery(qa[r].ragQueryInput, fragmentTable, sourceTable) :
          IF f.pc = "thrown"
          THEN qa' = [qa EXCEPT ![r].pc = "thrown", ![r].rag = f, ![r].error = f.error]
          ELSE LET ragResult == safeExecuteRagQuery(f)
                   sourceFragmentIds == [i \in 1..Len(ragResult.sources) |->
                                            ragResult.sources[i].id]
                   assistantMessage ==
                       NewMessage(<<r, 2>>, qa[r].conversation.id, "assistant",
                                  ragResult.response,
                                  [sourceFragments |-> sourceFragmentIds,
                                   sourcesCount |-> Len(ragResult.sources)])
                   added == addMessage(qa[r].conversation, assistantMessage)
               IN IF added.threw
                  THEN qa' = [qa EXCEPT ![r].pc = "thrown", ![r].rag = f,
                                        ![r].error = added.err]
                  ELSE qa' = [qa EXCEPT ![r].pc = "saving", ![r].rag = f,
                                        ![r].conversation = added.ent,
                                        ![r].saveCalls = 1]
    /\ conversationTable' =
          IF qa'[r].pc = "thrown" /\ qa'[r].rag.pc = "thrown"
          THEN saveConversation(conversationTable, qa[r].conversation)
          ELSE conversationTable
    /\ AssistantUnchanged

\* The RAG flow settles; on a result the assistant message is added and the
\* conversation handed to save.
AssistantRagSettled(r) ==
    /\ qa[r].pc = "ragQuery"
    /\ \E f \in executeQuery(qa[r].ragQueryInput, fragmentTable, sourceTable) :
          IF f.pc = "thrown"
          THEN qa' = [qa EXCEPT ![r].pc = "thrown", ![r].rag = f, ![r].error = f.error]
          ELSE LET ragResult == safeExecuteRagQuery(f)
                   sourceFragmentIds == [i \in 1..Len(ragResult.sources) |->
                                            ragResult.sources[i].id]
                   assistantMessage ==
                       NewMessage(<<r, 2>>, qa[r].conversation.id, "assistant",
                                  ragResult.response,
                                  [sourceFragments |-> sourceFragmentIds,
                                   sourcesCount |-> Len(ragResult.sources)])
                   added == addMessage(qa[r].conversation, assistantMessage)
               IN IF added.threw
                  THEN qa' = [qa EXCEPT ![r].pc = "thrown", ![r].rag = f,
                                        ![r].error = added.err]
                  ELSE qa' = [qa EXCEPT ![r].pc = "saving", ![r].rag = f,
                                        ![r].conversation = added.ent,
                                        ![r].saveCalls = 1]
    /\ UNCHANGED conversationTable
    /\ AssistantUnchanged

\* A variant of the step that answers the caller although save threw.
AssistantSavedSwallowing(r) ==
    /\ qa[r].pc = "saving"
    /\ \/ /\ qa' = [qa EXCEPT ![r].pc = "done",
                              ![r].output = [response |-> qa[r].rag.response,
                                             conversationId |-> qa[r].conversation.id,
                                             sources |-> qa[r].rag.sources]]
          /\ UNCHANGED conversationTable
       \/ /\ conversationTable' = saveConversation(conversationTable, qa[r].conversation)
          /\ qa' = [qa EXCEPT ![r].pc = "done",
                              ![r].output = [response |-> qa[r].rag.response,
                                             conversationId |-> qa[r].conversation.id,
                                             sources |-> qa[r].rag.sources]]
    /\ AssistantUnchanged

\* save returns (or throws); on return the response is built.
AssistantSaved(r) ==
    /\ qa[r].pc = "saving"
    /\ \/ /\ qa' = [qa EXCEPT ![r].pc = "thrown", ![r].error = "Database error"]
          /\ UNCHANGED conversationTable
       \/ /\ conversationTable' = saveConversation(conversationTable, qa[r].conversation)
          /\ qa' = [qa EXCEPT ![r].pc = "done",
                              ![r].output = [response |-> qa[r].rag.response,
                                             conversationId |-> qa[r].conversation.id,
                                             sources |-> qa[r].rag.sources]]
    /\ AssistantUnchanged

AssistantNext ==
    \E r \in QaRuns :
        \/ AssistantExecute(r)
        \/ AssistantConversationResolved(r)
        \/ AssistantRagSettled(r)
        \/ AssistantSaved(r)

(***************************************************************************)
(* The Conversation entity on its own: a conversation as the use case      *)
(* obtains it (created, or loaded by the repository) on which a caller     *)
(* calls addMessage with any message.                                      *)
(***************************************************************************)
ConversationIds == {"conv-1", "conv-2"}
MessageRoles == {"user", "assistant"}
MessageContents == {"Hello", " Hi "}

\* The messages a caller may hand to addMessage, of either conversation.
CallerMessages ==
    {NewMessage(<<role, 0>>, c, role, content, NoMessageMetadata) :
        c \in ConversationIds, role \in MessageRoles, content \in MessageContents}

\* The conversations execute works on: a new one, or a stored one as
\* findById returns it.
LoadedConversations ==
    {NewConversation(c, "user-1", "sectorA") : c \in ConversationIds}
        \cup {findById(StoredConversations(k), c) : k \in {0, 1, 2}, c \in ConversationIds}

IdleConversationCall ==
    [conv |-> NoConversation, op |-> NULL, threw |-> FALSE,
     arg |-> [conversationId |-> NULL], before |-> <<>>]

\* conversation.addMessage(message) by any caller
CallAddMessage ==
    /\ Len(cv.conv.messages) < MaxMessages
    /\ \E msg \in CallerMessages :
          LET res == addMessage(cv.conv, msg)
          IN cv' = [conv |-> res.ent, op |-> "addMessage", threw |-> res.threw,
                    arg |-> msg, before |-> cv.conv.messages]
    /\ UNCHANGED <<ks, lastCall, clock, sourceTable, fragmentTable, run, vs, q, eb,
                   conversationTable, qa>>

ConversationNext == CallAddMessage

(***************************************************************************)
(* Initial states and specifications.                                      *)
(***************************************************************************)
IdleCall == [op |-> NULL, threw |-> FALSE, before |-> NULL]
IdleSearch == [called |-> FALSE]
IdleQuery == [pc |-> "idle"]
IdleBatch == [pc |-> "idle", call |-> <<>>]

EmptySourceTable == [i \in SourceIds |-> NoRow]

InitEntity ==
    /\ ks \in {NewKnowledgeSource(s, md, 0) : s \in Sectors, md \in Metadatas}
    /\ lastCall = IdleCall
    /\ clock = 0
    /\ sourceTable = EmptySourceTable
    /\ fragmentTable = {}
    /\ run = [r \in Runs |-> IdleRun]
    /\ vs = IdleSearch
    /\ q = IdleQuery
    /\ eb = IdleBatch
    /\ conversationTable = StoredConversations(0)
    /\ qa = [r \in QaRuns |-> IdleQaRun]
    /\ cv = IdleConversationCall

SpecEntity == InitEntity /\ [][EntityNext]_vars

InitIngest ==
    /\ ks = NewKnowledgeSource("sectorA", NoMetadata, 0)
    /\ lastCall = IdleCall
    /\ clock = 0
    /\ sourceTable = EmptySourceTable
    /\ fragmentTable = {}
    /\ run = [r \in Runs |-> IdleRun]
    /\ vs = IdleSearch
    /\ q = IdleQuery
    /\ eb = IdleBatch
    /\ conversationTable = StoredConversations(0)
    /\ qa = [r \in QaRuns |-> IdleQaRun]
    /\ cv = IdleConversationCall

SpecIngest == InitIngest /\ [][IngestNext]_vars

InitSearch ==
    /\ ks = NewKnowledgeSource("sectorA", NoMetadata, 0)
    /\ lastCall = IdleCall
    /\ clock = 0
    /\ sourceTable = StoredSources
    /\ fragmentTable \in StoredFragmentTables
    /\ run = [r \in Runs |-> IdleRun]
    /\ vs = IdleSearch
    /\ q = IdleQuery
    /\ eb = IdleBatch
    /\ conversationTable = StoredConversations(0)
    /\ qa = [r \in QaRuns |-> IdleQaRun]
    /\ cv = IdleConversationCall

SpecSearch == InitSearch /\ [][SearchNext]_vars

InitQuery == InitSearch

SpecQuery == InitQuery /\ [][QueryNext]_vars

InitEmbed == InitIngest

SpecEmbed == InitEmbed /\ [][EmbedNext]_vars

InitAssistant ==
    /\ ks = NewKnowledgeSource("sectorA", NoMetadata, 0)
    /\ lastCall = IdleCall
    /\ clock = 0
    /\ sourceTable = StoredSources
    /\ fragmentTable = AssistantFragments
    /\ run = [r \in Runs |-> IdleRun]
    /\ vs = IdleSearch
    /\ q = IdleQuery
    /\ eb = IdleBatch
    /\ conversationTable \in {StoredConversations(k) : k \in HistoryLengths}
    /\ qa = [r \in QaRuns |-> IdleQaRun]
    /\ cv = IdleConversationCall

SpecAssistant == InitAssistant /\ [][AssistantNext]_vars

InitSoftDelete ==
    /\ ks = NewKnowledgeSource("sectorA", NoMetadata, 0)
    /\ lastCall = IdleCall
    /\ clock = 0
    /\ sourceTable = StoredSources
    /\ fragmentTable = AssistantFragments
    /\ run = [r \in Runs |-> IdleRun]
    /\ vs = IdleSearch
    /\ q = IdleQuery
    /\ eb = IdleBatch
    /\ conversationTable = StoredConversations(0)
    /\ qa = [r \in QaRuns |-> IdleQaRun]
    /\ cv = IdleConversationCall

SpecSoftDelete == InitSoftDelete /\ [][SoftDeleteNext]_vars

InitConversation ==
    /\ ks = NewKnowledgeSource("sectorA", NoMetadata, 0)
    /\ lastCall = IdleCall
    /\ clock = 0
    /\ sourceTable = EmptySourceTable
    /\ fragmentTable = {}
    /\ run = [r \in Runs |-> IdleRun]
    /\ vs = IdleSearch
    /\ q = IdleQuery
    /\ eb = IdleBatch
    /\ conversationTable = StoredConversations(0)
    /\ qa = [r \in QaRuns |-> IdleQaRun]
    /\ cv \in {[IdleConversationCall EXCEPT !.conv = c] : c \in LoadedConversations}

SpecConversation == InitConversation /\ [][ConversationNext]_vars

(***************************************************************************)
(* Claims about ingestion and the KnowledgeSource status.                  *)
(***************************************************************************)

\* C1: when an ingestion run throws after its Source was persisted in
\* PROCESSING status, the persisted Source is retrievable with status FAILED
\* and its error message is the message of the error thrown.
C1_FailedSourceOnError ==
    \A r \in Runs :
        (run[r].pc = "thrown" /\ run[r].persisted) =>
            LET found == findSourceById(sourceTable, run[r].source.id)
            IN /\ found # NoRow
               /\ found.status = "FAILED"
               /\ found.errorMessage = run[r].error

\* C2: once a Source is COMPLETED or FAILED, markAsProcessing, markAsCompleted
\* and markAsFailed are rejected, and no step takes the status back to PENDING
\* or PROCESSING or switches it between COMPLETED and FAILED.
C2_TerminalStatusIsFinal ==
    [][ks.status \in {"COMPLETED", "FAILED"} =>
          /\ ks'.status \in {ks.status, "DELETED"}
          /\ lastCall'.op \in {"markAsProcessing", "markAsCompleted", "markAsFailed"}
                => lastCall'.threw]_vars

\* C3: a Source row has status COMPLETED only if the run that persisted it
\* has had its saveFragments return, with every fragment of the run stored.
C3_CompletedOnlyAfterFragmentsSaved ==
    \A id \in SourceIds :
        (sourceTable[id] # NoRow /\ sourceTable[id].status = "COMPLETED") =>
            \E r \in Runs :
                /\ run[r].source.id = id
                /\ run[r].fragmentsSaved
                /\ \A i \in 1..Len(run[r].fragments) :
                      \E f \in fragmentTable :
                          /\ f.sourceId = id
                          /\ f.position = run[r].fragments[i].position
                          /\ f.content = run[r].fragments[i].content

\* C3 witness: one run ended with its Source COMPLETED and all fragments
\* stored while another run's saveFragments failed and left its Source in
\* PROCESSING.
C3_Witness ==
    \E r1, r2 \in Runs :
        /\ run[r1].pc = "done"
        /\ sourceTable[run[r1].source.id].status = "COMPLETED"
        /\ Len(run[r1].fragments) = MaxChunks
        /\ run[r2].pc = "thrown"
        /\ run[r2].fragments # <<>>
        /\ ~run[r2].fragmentsSaved
        /\ sourceTable[run[r2].source.id].status = "PROCESSING"

(***************************************************************************)
(* Claims about retrieval.                                                 *)
(***************************************************************************)
EffectiveThreshold(t) == IF t = NoArg THEN DEFAULT_SIMILARITY_THRESHOLD ELSE t

\* C5: every fragment vectorSearch returns for tenant scope S belongs to a
\* Source whose sectorId is S, whatever the similarity of other tenants'
\* fragments.
C5_ResultsBelongToTenant ==
    vs.called =>
        \A i \in 1..Len(vs.result) :
            /\ sourceTable[vs.result[i].sourceId] # NoRow
            /\ sourceTable[vs.result[i].sourceId].sectorId = vs.sectorId

\* C5 witness: a search returned a fragment while another tenant holds a
\* fragment strictly more similar to the query vector.
C5_Witness ==
    /\ vs.called
    /\ vs.result # <<>>
    /\ \E f \in fragmentTable :
          /\ sourceTable[f.sourceId].sectorId # vs.sectorId
          /\ f.embedding # NoVector
          /\ \A i \in 1..Len(vs.result) :
                Similarity(f.embedding, vs.embedding) > vs.result[i].similarity

\* C7: every fragment vectorSearch returns has a stored embedding, and its
\* similarity, 1 - cosine distance to the query vector, is at least the
\* threshold in effect for the search.
C7_ResultsEmbeddedAndAboveThreshold ==
    vs.called =>
        \A i \in 1..Len(vs.result) :
            /\ vs.result[i].embedding # NoVector
            /\ vs.result[i].similarity =
                   100 - CosineDistance(vs.result[i].embedding, vs.embedding)
            /\ vs.result[i].similarity >= EffectiveThreshold(vs.threshold)

\* C7 witness: a search with a supplied threshold returned a fragment while
\* the tenant also holds a fragment without embedding and one below the
\* threshold.
C7_Witness ==
    /\ vs.called
    /\ vs.threshold = 50
    /\ vs.result # <<>>
    /\ \E f, g \in fragmentTable :
          /\ sourceTable[f.sourceId].sectorId = vs.sectorId
          /\ sourceTable[g.sourceId].sectorId = vs.sectorId
          /\ f.embedding = NoVector
          /\ g.embedding # NoVector
          /\ Similarity(g.embedding, vs.embedding) < 50

(***************************************************************************)
(* Claims about the query flow.                                            *)
(***************************************************************************)
NoneRelevant ==
    \A i \in 1..Len(q.allFragments) :
        q.allFragments[i].similarity < q.validated.minSimilarity

\* C4: whenever no retrieved fragment has similarity >= the query's
\* minSimilarity, the query returns the fallback text with no sources and the
\* generative model is not called.
C4_FallbackWithoutGeneration ==
    (q.pc # "idle" /\ q.searched /\ NoneRelevant) =>
        /\ q.pc = "done"
        /\ q.response = FALLBACK_RESPONSE
        /\ q.sources = <<>>
        /\ q.generateCalls = 0

\* C4 witness: retrieval returned fragments, all below the supplied
\* minSimilarity, and the query ended with the fallback.
C4_Witness ==
    /\ q.pc = "done"
    /\ q.searched
    /\ q.allFragments # <<>>
    /\ NoneRelevant
    /\ q.response = FALLBACK_RESPONSE

\* C6: with maxResults and minSimilarity supplied within their bounds (or
\* omitted), the sources returned are the (up to maxResults) most similar
\* fragments of the tenant whose similarity is >= minSimilarity.
C6_SuppliedBoundsHonoured ==
    (q.pc = "done") =>
        LET eligible == Candidates(fragmentTable, sourceTable, q.queryEmbedding,
                                   q.validated.sectorId, q.validated.minSimilarity)
            expected == OrderedLimited(eligible, q.queryEmbedding, q.validated.maxResults)
        IN \E s \in expected :
              /\ Len(s) = Len(q.sources)
              /\ \A i \in 1..Len(s) : q.sources[i].id = s[i].id

(***************************************************************************)
(* Claims about generateEmbeddings.                                        *)
(***************************************************************************)
Calls == DOMAIN eb.call
WindowOf(i) == (i - 1) \div eb.batchSize

\* C8: if a per-text embedding call of a batch fails, generateEmbeddings as a
\* whole fails with the (wrapped) failure of a failed call and returns no
\* vectors, whatever was embedded before.
C8_FailureFailsWholeBatch ==
    (eb.pc # "idle" /\ \E i \in Calls : eb.call[i] = "failed") =>
        /\ eb.pc = "rejected"
        /\ eb.result = <<>>
        /\ eb.error.message = "Failed to generate embedding"
        /\ eb.error.index \in Calls
        /\ eb.call[eb.error.index] = "failed"

\* C8 witness: the batch failed on a call although a call of an earlier
\* window and another call of the same window returned their vectors.
C8_Witness ==
    /\ eb.pc = "rejected"
    /\ eb.embeddings # <<>>
    /\ \E i, j \in Calls :
          /\ i # j
          /\ WindowOf(i) = WindowOf(j)
          /\ eb.call[i] = "failed"
          /\ eb.call[j] = "ok"

\* C9: a generateEmbeddings call that returns gives one vector per text, the
\* vector at index i being the embedding of the text at index i, in whatever
\* order the calls of a window completed.
C9_VectorsInInputOrder ==
    eb.pc = "resolved" =>
        /\ Len(eb.result) = Len(eb.texts)
        /\ \A i \in 1..Len(eb.texts) :
              eb.result[i] = EmbeddingOf(eb.texts[i], DEFAULT_EMBEDDING_DIMENSIONS)

\* C9 witness: a batch of MaxTexts texts in windows of two returned after a
\* call completed before a call of a lower index, with different texts.
C9_Witness ==
    /\ eb.pc = "resolved"
    /\ Len(eb.texts) = MaxTexts
    /\ eb.batchSize = 2
    /\ eb.outOfOrder
    /\ eb.texts[1] # eb.texts[2]
    /\ Len(eb.result) = MaxTexts

\* C10: a call of a window is issued only when every call of the earlier
\* windows has returned successfully, so after a failure no call of a later
\* window is issued, and at most batchSize calls are in flight.
C10_WindowsOneAtATime ==
    eb.pc # "idle" =>
        /\ \A j, k \in Calls :
              (WindowOf(k) < WindowOf(j) /\ eb.call[j] # "notIssued") => eb.call[k] = "ok"
        /\ Cardinality({i \in Calls : eb.call[i] = "inFlight"}) <= eb.batchSize

\* C10 witness: in the first window of two calls one call failed while the
\* other is in flight, and a call of the second window is not issued.
C10_Witness ==
    /\ eb.pc = "rejected"
    /\ eb.batchSize = 2
    /\ \E i, j, k \in Calls :
          /\ WindowOf(i) = 0 /\ WindowOf(j) = 0 /\ WindowOf(k) = 1
          /\ eb.call[i] = "failed"
          /\ eb.call[j] = "inFlight"
          /\ eb.call[k] = "notIssued"

InvalidTexts == {i \in 1..Len(eb.texts) : validateInput(eb.texts[i]) # NULL}

\* C11: if any text of a non-empty batch is null or blank, wherever it sits in
\* the list, generateEmbeddings fails with the validation error of an invalid
\* text and no provider call has been issued.
C11_ValidationBeforeAnyCall ==
    (eb.pc # "idle" /\ InvalidTexts # {}) =>
        /\ eb.pc = "rejected"
        /\ eb.error.message \in {validateInput(eb.texts[i]) : i \in InvalidTexts}
        /\ \A i \in Calls : eb.call[i] = "notIssued"
        /\ eb.result = <<>>

\* C11 witness: a batch of MaxTexts texts whose only invalid text is the last
\* one, beyond the first window, was rejected.
C11_Witness ==
    /\ eb.pc = "rejected"
    /\ Len(eb.texts) = MaxTexts
    /\ InvalidTexts = {MaxTexts}
    /\ eb.batchSize < MaxTexts
    /\ eb.error.message = "Text cannot be empty"

(***************************************************************************)
(* Claims about the assistant's queries.                                   *)
(***************************************************************************)

\* C12: when the conversation holds no message prior to the current query (a
\* new conversation or a stored one with an empty history), the query handed
\* to the RAG flow, and by it to the embedding, is exactly the raw query.
C12_NoHistoryRawQuery ==
    \A r \in QaRuns :
        (qa[r].ragQueryInput.query # NULL /\ qa[r].prior = <<>>) =>
            /\ qa[r].ragQueryInput.query = qa[r].input.query
            /\ (qa[r].rag.pc # "idle" /\ qa[r].rag.embedCalls = 1) =>
                   qa[r].rag.embedCall.content = qa[r].input.query

\* The lines of the most recent (at most DEFAULT_CONTEXT_MESSAGE_LIMIT)
\* messages that preceded run r's query, in append order.
PriorContext(r) ==
    LET recent == SliceLast(qa[r].prior, DEFAULT_CONTEXT_MESSAGE_LIMIT)
    IN JoinLines([i \in 1..Len(recent) |-> formatForPrompt(recent[i])])

\* C13: when k >= 1 messages precede the current query, the contextual query
\* is the "<Role>: <content>" lines of the min(k, N) most recent prior
\* messages in append order, followed by the current query exactly once (as
\* it is, or as a "User: " line).
C13_ContextThenQueryOnce ==
    \A r \in QaRuns :
        (qa[r].ragQueryInput.query # NULL /\ qa[r].prior # <<>>) =>
            qa[r].ragQueryInput.query \in
                {PriorContext(r) \o "\n" \o qa[r].input.query,
                 PriorContext(r) \o "\n" \o Trim(qa[r].input.query),
                 PriorContext(r) \o "\nUser: " \o qa[r].input.query,
                 PriorContext(r) \o "\nUser: " \o Trim(qa[r].input.query)}

\* C14: whenever a generation prompt is assembled for a query, the user
\* question placed in it is the raw query the caller supplied, not the
\* contextual query built from the conversation.
C14_PromptHoldsRawQuery ==
    \A r \in QaRuns :
        (qa[r].rag.pc # "idle" /\ qa[r].rag.generateCalls = 1) =>
            qa[r].rag.prompt.question = qa[r].input.query

\* C15: every embedding call the query flow makes for its query is tagged
\* with the query-retrieval task hint (RETRIEVAL_QUERY), the counterpart of
\* the RETRIEVAL_DOCUMENT hint ingestion embeds the fragments with.
C15_QueryEmbeddingTaggedAsQuery ==
    (q.pc # "idle" /\ q.embedCalls = 1) =>
        q.embedCall.taskType = "RETRIEVAL_QUERY"

(***************************************************************************)
(* Further claims about ingestion.                                         *)
(***************************************************************************)
\* The errors of the collaborators of an ingestion and of its input
\* validation.
CollaboratorErrors ==
    {"Title cannot be empty", "Failed to parse PDF", "Chunking failed",
     "API rate limit exceeded", "Database error"}

\* C16: an ingestion with valid inputs whose parser, chunker, embedding and
\* persistence calls all succeed ends with the Source COMPLETED and a
\* fragmentCount equal to the number (at least one) of chunks; it fails only
\* with the error of a failed validation or collaborator.
C16_ValidIngestionCompletes ==
    \A r \in Runs :
        /\ run[r].pc = "thrown" => run[r].error \in CollaboratorErrors
        /\ run[r].pc = "done" =>
              /\ sourceTable[run[r].result.sourceId].status = "COMPLETED"
              /\ run[r].result.fragmentCount = Len(run[r].chunks)
              /\ Len(run[r].chunks) >= 1

\* C17: ingestion builds exactly one Fragment per chunk, and the Fragment of
\* the chunk at index i carries that chunk's content and position and the
\* embedding computed from that chunk's content; the rows stored are these.
C17_FragmentPairsChunkWithItsEmbedding ==
    \A r \in Runs :
        run[r].pc \in {"savingFragments", "savingCompleted", "done"} =>
            /\ Len(run[r].fragments) = Len(run[r].chunks)
            /\ \A i \in 1..Len(run[r].chunks) :
                  /\ run[r].fragments[i].sourceId = run[r].source.id
                  /\ run[r].fragments[i].content = run[r].chunks[i].content
                  /\ run[r].fragments[i].position = run[r].chunks[i].position
                  /\ run[r].fragments[i].embedding.text = run[r].chunks[i].content
                  /\ run[r].fragmentsSaved =>
                        \E f \in fragmentTable :
                            /\ f.sourceId = run[r].source.id
                            /\ f.position = run[r].chunks[i].position
                            /\ f.content = run[r].chunks[i].content
                            /\ f.embedding.text = run[r].chunks[i].content

\* C17 witness: a run of MaxChunks chunks ended with its fragments stored.
C17_Witness ==
    \E r \in Runs :
        /\ run[r].pc = "done"
        /\ Len(run[r].chunks) = MaxChunks
        /\ run[r].chunks[1].content # run[r].chunks[2].content
        /\ Cardinality({f \in fragmentTable : f.sourceId = run[r].source.id}) = MaxChunks

PersistedRuns == {r \in Runs : run[r].persisted}

\* C18: when input validation or parsing fails, before the Processing
\* persist, no Source is persisted and no chunking, embedding or persistence
\* call has been made by the run: every stored row and fragment belongs to
\* another run.
C18_NoSideEffectsBeforeProcessing ==
    \A r \in Runs :
        (run[r].pc = "thrown"
           /\ run[r].error \in {"Title cannot be empty", "Failed to parse PDF"}) =>
            /\ ~run[r].persisted
            /\ run[r].source = NoRow
            /\ \A i \in 1..Len(run[r].calls) : run[r].calls[i] = "parse"
            /\ Cardinality({id \in SourceIds : sourceTable[id] # NoRow})
                  = Cardinality(PersistedRuns)
            /\ \A f \in fragmentTable :
                  \E r2 \in PersistedRuns : f.sourceId = run[r2].source.id

\* C18 witness: one run failed in the parser after another run had persisted
\* its Source and fragments.
C18_Witness ==
    \E r1, r2 \in Runs :
        /\ run[r1].pc = "thrown"
        /\ run[r1].error = "Failed to parse PDF"
        /\ run[r1].calls = <<"parse">>
        /\ run[r2].pc = "done"
        /\ fragmentTable # {}

\* C19: once a Source is DELETED no operation changes any of its state:
\* markAsProcessing, markAsCompleted, markAsFailed and updateMetadata are
\* rejected, and status, error message, metadata and timestamps stay as they
\* were when it was deleted.
C19_DeletedSourceIsImmutable ==
    [][ks.status = "DELETED" =>
          /\ ks' = ks
          /\ lastCall'.op \in {"markAsProcessing", "markAsCompleted",
                               "markAsFailed", "updateMetadata"}
                => lastCall'.threw]_vars

\* C20: if an explicit conversationId does not resolve to a stored
\* conversation, the query fails with "Conversation not found" and has no
\* side effect: no conversation is created or saved, and the RAG flow (its
\* embedding, retrieval and generative calls) is not called.
C20_UnknownConversationFailsCleanly ==
    \A r \in QaRuns :
        (/\ qa[r].pc \notin {"idle", "finding"}
         /\ validateQueryInput(qa[r].input) = NULL
         /\ qa[r].input.conversationId # NULL
         /\ findById(conversationTable, qa[r].input.conversationId) = NoConversation) =>
            /\ qa[r].pc = "thrown"
            /\ qa[r].error = "Conversation not found"
            /\ qa[r].conversation = NoConversation
            /\ qa[r].ragQueryInput.query = NULL
            /\ qa[r].rag.pc = "idle"
            /\ qa[r].saveCalls = 0
            /\ conversationTable[NewConversationId(r)] = NoConversation

\* C20 witness: a query with an unknown conversationId failed while the
\* other caller's query was saved.
C20_Witness ==
    \E r1, r2 \in QaRuns :
        /\ qa[r1].pc = "thrown"
        /\ qa[r1].input.conversationId = "conv-missing"
        /\ qa[r1].error = "Conversation not found"
        /\ qa[r2].pc = "done"

\* C21: if the generative call fails the query fails with that error; the
\* fallback text is returned only when no generative call was made, and a
\* query that called the model returns the model's text.
C21_FailedGenerationFailsQuery ==
    \A r \in QaRuns :
        qa[r].rag.pc # "idle" =>
            /\ (qa[r].rag.pc = "thrown" /\ qa[r].rag.generateCalls = 1) =>
                  /\ qa[r].pc = "thrown"
                  /\ qa[r].error = "Generation failed"
                  /\ qa[r].rag.response = NULL
                  /\ qa[r].output.response = NULL
            /\ qa[r].rag.response = FALLBACK_RESPONSE => qa[r].rag.generateCalls = 0
            /\ (qa[r].rag.pc = "done" /\ qa[r].rag.generateCalls = 1) =>
                  qa[r].rag.response \in Answers

\* C21 witness: a query whose generative call failed ended with that error.
C21_Witness ==
    \E r \in QaRuns :
        /\ qa[r].pc = "thrown"
        /\ qa[r].rag.pc = "thrown"
        /\ qa[r].rag.generateCalls = 1
        /\ qa[r].rag.relevantFragments # <<>>
        /\ qa[r].error = "Generation failed"

\* The conversation run r persisted holds, next to each other and in this
\* order, r's user message with content userContent and r's assistant
\* message with the flow's (trimmed) response, and no other message of r.
PairPersisted(r, userContent) ==
    LET stored == conversationTable[qa[r].conversation.id].messages
        held == qa[r].conversation.messages
        n == Len(held)
        isPair(u, a) ==
            /\ u.id = <<r, 1>> /\ u.role = "user" /\ u.content = userContent
            /\ a.id = <<r, 2>> /\ a.role = "assistant"
            /\ a.content = Trim(qa[r].rag.response)
            /\ u.conversationId = qa[r].conversation.id
            /\ a.conversationId = qa[r].conversation.id
    IN /\ n = Len(qa[r].prior) + 2
       /\ SubSeq(held, 1, n - 2) = qa[r].prior
       /\ isPair(held[n - 1], held[n])
       /\ \E i \in 1..(Len(stored) - 1) : isPair(stored[i], stored[i + 1])
       /\ Cardinality({i \in 1..Len(stored) : stored[i].id[1] = r}) = 2

\* C22 as stated: each successful query appends exactly two messages, the
\* user message carrying the raw query and then the assistant message
\* carrying the generated text, and they are persisted in this order.
C22_UserThenAssistantRaw ==
    \A r \in QaRuns : qa[r].pc = "done" => PairPersisted(r, qa[r].input.query)

\* C22 amended: as above, the user message carrying the raw query without
\* its leading and trailing whitespace.
C22_UserThenAssistantTrimmed ==
    \A r \in QaRuns : qa[r].pc = "done" => PairPersisted(r, Trim(qa[r].input.query))

\* C22 witness: a query with surrounding whitespace succeeded on a stored
\* conversation with history.
C22_Witness ==
    \E r \in QaRuns :
        /\ qa[r].pc = "done"
        /\ qa[r].prior # <<>>
        /\ qa[r].input.query # Trim(qa[r].input.query)
        /\ qa[r].rag.response \in Answers
        /\ PairPersisted(r, Trim(qa[r].input.query))

C24_MalformedResponseDistinctError ==
    (/\ eb.pc = "rejected"
     /\ eb.error.index # 0
     /\ eb.response[eb.error.index] \in MalformedResponses) =>
        /\ eb.error.message = "Invalid embedding response format"
        /\ eb.error.message # "Failed to generate embedding"

\* C25: a supplied limit above the hard maximum is capped to the maximum and
\* a supplied threshold above 1 is clamped to 1; the query is not rejected
\* for them and the flow goes on to search with the bounded values.
C25_OutOfRangeBoundsAreClamped ==
    (/\ q.pc # "idle"
     /\ q.input.query # ""
     /\ \/ q.input.maxResults > MAX_RESULTS_LIMIT
        \/ q.input.minSimilarity > MIN_SIMILARITY_MAX) =>
        /\ q.error # "ZodError"
        /\ q.embedCalls = 1
        /\ q.validated.maxResults <= MAX_RESULTS_LIMIT
        /\ q.validated.minSimilarity <= MIN_SIMILARITY_MAX

\* C26: retrieval returns at most the requested limit of fragments (the
\* default when none is requested), and so a query response cites at most
\* that many sources.
C26_ResultsWithinLimit ==
    (q.pc # "idle" /\ q.searched) =>
        /\ Len(q.allFragments) <= q.validated.maxResults
        /\ Len(q.relevantFragments) <= q.validated.maxResults
        /\ Len(q.sources) <= q.validated.maxResults
        /\ q.input.maxResults # NoArg => Len(q.sources) <= q.input.maxResults

\* C26 witness: a query with limit 1 answered with one source although two
\* fragments of the tenant were similar enough.
C26_Witness ==
    /\ q.pc = "done"
    /\ q.input.maxResults = 1
    /\ Len(q.sources) = 1
    /\ Cardinality(Candidates(fragmentTable, sourceTable, q.queryEmbedding,
                              q.validated.sectorId, DEFAULT_SIMILARITY_THRESHOLD)) >= 2

\* The stored conversations hold the message k (1: user, 2: assistant) of
\* run r.
StoredMessageOf(r, k) ==
    \E c \in DOMAIN conversationTable :
        /\ conversationTable[c] # NoConversation
        /\ \E i \in 1..Len(conversationTable[c].messages) :
              conversationTable[c].messages[i].id = <<r, k>>

\* C27: a query whose embedding, retrieval or generation failed does not
\* persist the conversation (save is not called, no message of the query and
\* no conversation created for it is stored), and the stored conversations
\* never hold the user message of a query without its assistant message.
C27_FailedQueryPersistsNothing ==
    \A r \in QaRuns :
        /\ (qa[r].pc = "thrown" /\ qa[r].rag.pc = "thrown") =>
              /\ qa[r].saveCalls = 0
              /\ ~StoredMessageOf(r, 1)
              /\ ~StoredMessageOf(r, 2)
              /\ conversationTable[NewConversationId(r)] = NoConversation
        /\ StoredMessageOf(r, 1) <=> StoredMessageOf(r, 2)

\* C27 witness: a query on a stored conversation failed in generation after
\* the other caller's query on the same conversation was saved.
C27_Witness ==
    \E r1, r2 \in QaRuns :
        /\ qa[r1].pc = "thrown"
        /\ qa[r1].rag.pc = "thrown"
        /\ qa[r1].rag.error = "Generation failed"
        /\ qa[r1].conversation.id = "conv-1"
        /\ qa[r2].pc = "done"
        /\ qa[r2].conversation.id = "conv-1"
        /\ StoredMessageOf(r2, 1)

\* The position of message k of run r in the stored conversation c, 0 when
\* it is not there.
StoredPosition(c, r, k) ==
    LET stored == conversationTable[c].messages
        at == {i \in 1..Len(stored) : stored[i].id = <<r, k>>}
    IN IF at = {} THEN 0 ELSE CHOOSE i \in at : TRUE

C29_ExplicitConversationIsOwn ==
    \A r \in QaRuns :
        (/\ qa[r].input.query # NULL
         /\ qa[r].input.conversationId # NULL
         /\ qa[r].conversation # NoConversation) =>
            /\ qa[r].conversation.userId = qa[r].input.userId
            /\ qa[r].conversation.sectorId = qa[r].input.sectorId
            /\ qa[r].ragQueryInput.sectorId = qa[r].conversation.sectorId

\* C30: after a Source has been soft-deleted, retrieval returns none of its
\* fragments.
C30_DeletedSourceNotRetrieved ==
    vs.called =>
        \A i \in 1..Len(vs.result) :
            sourceTable[vs.result[i].sourceId].deletedAt = NoDate

====
